---- MODULE Spec2Model ----
(***************************************************************************)
(* Purchase release (POST /api/compras/[id]/release) of loiro_das_milhas:  *)
(* the route handler, its pure helpers (clampPts, toProgramKey,            *)
(* computeProgramDeltas) and the relational store it talks to through      *)
(* Prisma (autonomous statements and one interactive transaction).         *)
(***************************************************************************)
EXTENDS Integers, Sequences, FiniteSets, TLC

VARIABLES
  pontos,       \* Cedente rows: cedente id -> program key -> points counter
  purchase,     \* Purchase rows: purchase id -> record
  items,        \* PurchaseItem rows: purchase id -> sequence of item records
  commissions,  \* CedenteCommission table: sequence of rows
  now,          \* the clock read by new Date()
  isolation,    \* isolation level of the datasource ($transaction sets none)
  pc,           \* per request: the await the handler is suspended at
  req,          \* per request: id, session user, parsed body
  loc,          \* per request: locals of the transaction callback
  txw,          \* per request: uncommitted writes of its transaction
  stale,        \* per request: rows committed by others since its snapshot
  resp,         \* per request: the response returned
  dItems,       \* input of a stand-alone computeProgramDeltas call
  dOut,         \* its result
  dDone,        \* whether the call has returned
  users,        \* User rows of /api/auth: login -> record
  apc,          \* per /api/auth client: the await its request is suspended at
  areq,         \* per /api/auth client: the request and the locals of its handler
  aresp,        \* per /api/auth client: the last response
  lastSet       \* login -> the password of its last successful setPassword

storeVars == <<pontos, purchase, items, commissions>>
reqVars   == <<pc, req, loc, txw, stale, resp>>
deltaVars == <<dItems, dOut, dDone>>
authVars == <<users, apc, areq, aresp, lastSet>>
vars == <<pontos, purchase, items, commissions, now, isolation,
          pc, req, loc, txw, stale, resp, dItems, dOut, dDone,
          users, apc, areq, aresp, lastSet>>

(***************************************************************************)
(* Bounds                                                                  *)
(***************************************************************************)
\* largest point amount of an item and of an initial balance
MaxPts == 2
\* longest item list handed to a stand-alone computeProgramDeltas call
MaxItems == 2

(***************************************************************************)
(* JavaScript values.  A value that reaches Number() is null/undefined, a  *)
(* non-numeric value (NaN after Number()), or a finite number; numbers are *)
(* kept in halves so that Math.trunc has something to truncate.            *)
(***************************************************************************)
RNull == [k |-> "null", h |-> 0]
RNaN == [k |-> "nan", h |-> 0]
RNum(h) == [k |-> "num", h |-> h]
RInt(n) == [k |-> "num", h |-> 2 * n]

Max(a, b) == IF a >= b THEN a ELSE b

\* Math.trunc of h/2: rounds toward zero
Trunc(h) == IF h >= 0 THEN h \div 2 ELSE 0 - ((0 - h) \div 2)

\* a clamp that forgets Math.max(0, .)
clampPtsNoFloor(v) == IF v.k = "num" THEN Trunc(v.h) ELSE 0

\* function clampPts(v)
clampPts(v) == IF v.k = "num" THEN Max(0, Trunc(v.h)) ELSE 0

\* a ?? b
Coalesce(a, b) == IF a.k # "null" THEN a ELSE b

(***************************************************************************)
(* Strings are sequences of one-character strings.                         *)
(***************************************************************************)
LowerAZ == <<"a","b","c","d","e","f","g","h","i","j","k","l","m",
             "n","o","p","q","r","s","t","u","v","w","x","y","z">>
UpperAZ == <<"A","B","C","D","E","F","G","H","I","J","K","L","M",
             "N","O","P","Q","R","S","T","U","V","W","X","Y","Z">>

UpperChar(c) ==
  IF \E i \in 1..Len(LowerAZ) : LowerAZ[i] = c
  THEN UpperAZ[CHOOSE i \in 1..Len(LowerAZ) : LowerAZ[i] = c]
  ELSE c

\* String.prototype.toUpperCase
ToUpperCase(s) == [i \in 1..Len(s) |-> UpperChar(s[i])]

RECURSIVE TrimStart(_)
TrimStart(s) == IF s # <<>> /\ Head(s) = " " THEN TrimStart(Tail(s)) ELSE s

RECURSIVE TrimEnd(_)
TrimEnd(s) ==
  IF s # <<>> /\ s[Len(s)] = " " THEN TrimEnd(SubSeq(s, 1, Len(s) - 1)) ELSE s

\* String.prototype.trim
Trim(s) == TrimEnd(TrimStart(s))

LATAM == <<"L","A","T","A","M">>
SMILES == <<"S","M","I","L","E","S">>
LIVELO == <<"L","I","V","E","L","O">>
ESFERA == <<"E","S","F","E","R","A">>
AZUL == <<"A","Z","U","L">>
IBERIA == <<"I","B","E","R","I","A">>
AA == <<"A","A">>
TAP == <<"T","A","P">>
FLYING_BLUE == <<"F","L","Y","I","N","G","_","B","L","U","E">>

PENDING == <<"P","E","N","D","I","N","G">>
RELEASED == <<"R","E","L","E","A","S","E","D">>
CANCELED == <<"C","A","N","C","E","L","E","D">>

\* type ProgramKey
ProgramKeys ==
  {"latam", "smiles", "livelo", "esfera", "azul", "iberia", "aa", "tap", "flyingBlue"}

\* the four programs that have saldoPrevisto* / saldoAplicado* columns
LegacyKeys == {"latam", "smiles", "livelo", "esfera"}

NoKey == "null"

\* function toProgramKey(v); "" stands for null/undefined (String(v || ""))
toProgramKey(v) ==
  LET up == ToUpperCase(Trim(v))
  IN  CASE up = LATAM -> "latam"
        [] up = SMILES -> "smiles"
        [] up = LIVELO -> "livelo"
        [] up = ESFERA -> "esfera"
        [] up = AZUL -> "azul"
        [] up = IBERIA -> "iberia"
        [] up = AA -> "aa"
        [] up = TAP -> "tap"
        [] up = FLYING_BLUE -> "flyingBlue"
        [] OTHER -> NoKey

ZeroDeltas == [p \in ProgramKeys |-> 0]

\* the `continue` of the loop of computeProgramDeltas
IsCanceled(it) == ToUpperCase(it.status) = CANCELED

\* the body of the loop of computeProgramDeltas after its `continue`
DeltaApply(out, it) ==
  LET programTo == toProgramKey(it.programTo)
      programFrom == toProgramKey(it.programFrom)
      credited ==
        IF programTo # NoKey
        THEN [out EXCEPT ![programTo] = @ + clampPts(it.pointsFinal)]
        ELSE out
  IN  IF programFrom # NoKey
      THEN [credited EXCEPT ![programFrom] = @ - clampPts(it.pointsDebitedFromOrigin)]
      ELSE credited

\* a loop that has lost its `continue`
DeltaStepNoSkip(out, it) == DeltaApply(out, it)

\* one iteration of the loop of computeProgramDeltas
DeltaStep(out, it) == IF IsCanceled(it) THEN out ELSE DeltaApply(out, it)

RECURSIVE DeltaLoop(_, _)
DeltaLoop(out, its) ==
  IF its = <<>> THEN out ELSE DeltaLoop(DeltaStep(out, Head(its)), Tail(its))

\* function computeProgramDeltas(items)
computeProgramDeltas(its) == DeltaLoop(ZeroDeltas, its)


(***************************************************************************)
(* The store                                                               *)
(***************************************************************************)
Requests == {"r1", "r2"}
PurchaseIds == {"p1", "p2"}
CedenteId == "c1"
NoId == ""
UnknownId == "p9"

\* the session cookie of each client
SessionUser(r) == IF r = "r1" THEN "u1" ELSE "u2"

NullPrevisto == [p \in LegacyKeys |-> RNull]

Item(st, to, pf, from, deb) ==
  [status |-> st, programTo |-> to, pointsFinal |-> pf,
   programFrom |-> from, pointsDebitedFromOrigin |-> deb]

NoRow == <<>>

\* prisma.purchase.findUnique({ where: { id } })
FindPurchase(id) == IF id \in DOMAIN purchase THEN <<purchase[id]>> ELSE NoRow

\* the commission rows of a purchase
CommissionIdx(rows, pid) == {i \in 1..Len(rows) : rows[i].purchaseId = pid}

EmptyTx == [ced |-> NoRow, items |-> NoRow, pur |-> NoRow, com |-> NoRow]

\* the rows a transaction has written and holds locked until it ends
RowsOf(w) ==
  {<<"ced", w.ced[i].id>> : i \in 1..Len(w.ced)}
    \cup {<<"item", w.items[i].id>> : i \in 1..Len(w.items)}
    \cup {<<"pur", w.pur[i].id>> : i \in 1..Len(w.pur)}
    \cup {<<"com", w.com[i].row.purchaseId>> : i \in 1..Len(w.com)}

LockedByOther(r, row) == \E o \in Requests \ {r} : row \in RowsOf(txw[o])

TxWritePcs == {"txCedente", "txItems", "txPurchase", "txUpsert", "txCommit"}
TxPcs == {"txRead"} \cup TxWritePcs

\* a first-updater-wins store refuses a row changed since the snapshot
Conflict(r, row) == isolation = "Snapshot" /\ row \in stale[r]

\* committing rows makes them stale for the transactions still running
MarkStale(r, rows) ==
  [o \in Requests |->
     IF o # r /\ pc[o] \in TxWritePcs THEN stale[o] \cup rows ELSE stale[o]]

Response(st, err) == [status |-> st, error |-> err, compra |-> NoId, commission |-> NoRow]
NoResponse == Response(0, "")

NoLocals ==
  [cedenteId |-> NoId, applied |-> ZeroDeltas, amountCents |-> 0, commission |-> NoRow]


(***************************************************************************)
(* What a transaction leaves in the store when it ends                     *)
(***************************************************************************)
\* a callback that throws after writing, outside any transaction
OnThrowKeepsWrites(w) == w

\* prisma.$transaction: the callback threw, every write is rolled back
OnThrow(w) == EmptyTx

\* prisma.$transaction: the callback returned, every write is committed
OnReturn(w) == w

PontosAfter(w) ==
  IF w.ced = NoRow THEN pontos
  ELSE [pontos EXCEPT ![w.ced[1].id] = w.ced[1].data]

ItemsAfter(w) ==
  IF w.items = NoRow THEN items
  ELSE [items EXCEPT ![w.items[1].id] =
          [i \in 1..Len(@) |->
             IF i \in w.items[1].matched THEN [@[i] EXCEPT !.status = RELEASED]
             ELSE @[i]]]

\* a purchase update that leaves out saldoAplicado*
PurchaseAfterNoSnapshot(w) ==
  IF w.pur = NoRow THEN purchase
  ELSE [purchase EXCEPT ![w.pur[1].id] =
          [@ EXCEPT !.liberadoEm = w.pur[1].data.liberadoEm,
                    !.liberadoPorId = w.pur[1].data.liberadoPorId,
                    !.status = w.pur[1].data.status]]

PurchaseAfter(w) ==
  IF w.pur = NoRow THEN purchase
  ELSE [purchase EXCEPT ![w.pur[1].id] =
          [@ EXCEPT !.liberadoEm = w.pur[1].data.liberadoEm,
                    !.liberadoPorId = w.pur[1].data.liberadoPorId,
                    !.status = w.pur[1].data.status,
                    !.saldoAplicado = w.pur[1].data.saldoAplicado]]

CommissionsAfter(w) ==
  IF w.com = NoRow THEN commissions
  ELSE IF w.com[1].op = "create" THEN Append(commissions, w.com[1].row)
  ELSE [i \in 1..Len(commissions) |->
          IF commissions[i].purchaseId = w.com[1].row.purchaseId
          THEN w.com[1].row ELSE commissions[i]]

Persist(w) ==
  /\ pontos' = PontosAfter(w)
  /\ items' = ItemsAfter(w)
  /\ purchase' = PurchaseAfter(w)
  /\ commissions' = CommissionsAfter(w)

Finish(r, rsp) ==
  /\ pc' = [pc EXCEPT ![r] = "done"]
  /\ resp' = [resp EXCEPT ![r] = rsp]

\* catch (e) { return serverError(...) } around a throwing transaction
Throw(r, msg) ==
  /\ Persist(OnThrow(txw[r]))
  /\ txw' = [txw EXCEPT ![r] = EmptyTx]
  /\ Finish(r, Response(500, msg))
  /\ UNCHANGED <<now, isolation, req, loc, stale, deltaVars, authVars>>

(***************************************************************************)
(* The handler POST, one action per await                                  *)
(***************************************************************************)
NoOverrides == [p \in ProgramKeys |-> RNull]

\* await req.json().catch(() => ({})), then body?.saldosAplicados?.<key>
ParseBody(body) == IF body.malformed THEN NoOverrides ELSE body.saldosAplicados

NoRequest ==
  [id |-> NoId, userId |-> NoId, malformed |-> FALSE,
   saldosAplicados |-> NoOverrides, statusAtCall |-> "NONE"]

StatusOf(id) == IF id \in DOMAIN purchase THEN purchase[id].status ELSE "NONE"

\* lines 22-31: params, session, body (each read only if the check before passed)
Arrive(r, id, user, body) ==
  /\ pc[r] = "idle"
  /\ IF id = NoId
     THEN /\ req' = [req EXCEPT ![r] = NoRequest]
          /\ Finish(r, Response(400, "id"))
     ELSE IF user = NoId
     THEN /\ req' = [req EXCEPT ![r] = [NoRequest EXCEPT !.id = id]]
          /\ Finish(r, Response(400, "sessao"))
     ELSE /\ req' = [req EXCEPT ![r] =
               [id |-> id, userId |-> user, malformed |-> body.malformed,
                saldosAplicados |-> ParseBody(body), statusAtCall |-> StatusOf(id)]]
          /\ pc' = [pc EXCEPT ![r] = "find1"]
          /\ UNCHANGED resp
  /\ UNCHANGED <<storeVars, now, isolation, loc, txw, stale, deltaVars, authVars>>

\* a first check that lets every purchase through
NotOpenBaseNever(row) == FALSE

\* if (compraBase.status !== "OPEN")
NotOpenBase(row) == row.status # "OPEN"

\* lines 34-41
Find1(r) ==
  /\ pc[r] = "find1"
  /\ LET compraBase == FindPurchase(req[r].id)
     IN  IF compraBase = NoRow THEN Finish(r, Response(404, "compra"))
         ELSE IF NotOpenBase(compraBase[1]) THEN Finish(r, Response(400, "open"))
         ELSE /\ pc' = [pc EXCEPT ![r] = "recompute"]
              /\ UNCHANGED resp
  /\ UNCHANGED <<storeVars, now, isolation, req, loc, txw, stale, deltaVars, authVars>>

\* the predicted balances recomputeCompra may leave on the purchase
PrevistoChoices ==
  {NullPrevisto, [NullPrevisto EXCEPT !["latam"] = RInt(3 * MaxPts + 1)]}

\* line 44: await recomputeCompra(id)
Recompute(r) ==
  /\ pc[r] = "recompute"
  /\ ~LockedByOther(r, <<"pur", req[r].id>>)
  /\ \E f \in PrevistoChoices :
       purchase' = [purchase EXCEPT ![req[r].id].saldoPrevisto = f]
  /\ stale' = MarkStale(r, {<<"pur", req[r].id>>})
  /\ pc' = [pc EXCEPT ![r] = "find2"]
  /\ UNCHANGED <<pontos, items, commissions, now, isolation, req, loc, txw, resp,
                 deltaVars, authVars>>

\* a reload that forgets the cedente check
NoCedenteNever(row) == FALSE

\* if (!compra.cedente)
NoCedente(row) == row.cedenteId = NoId

\* lines 47-55
Find2(r) ==
  /\ pc[r] = "find2"
  /\ LET compra == FindPurchase(req[r].id)
     IN  IF compra = NoRow THEN Finish(r, Response(404, "compra"))
         ELSE IF compra[1].status # "OPEN" THEN Finish(r, Response(400, "open"))
         ELSE IF NoCedente(compra[1]) THEN Finish(r, Response(400, "cedente"))
         ELSE /\ pc' = [pc EXCEPT ![r] = "txRead"]
              /\ UNCHANGED resp
  /\ UNCHANGED <<storeVars, now, isolation, req, loc, txw, stale, deltaVars, authVars>>

\* lines 70-80
Current(cedente) == [p \in ProgramKeys |-> clampPts(RInt(cedente[p]))]

\* a chain that lets the predicted balance win over the override
AppliedPrevistoFirst(ov, previsto, current, deltas) ==
  [p \in ProgramKeys |->
     clampPts(
       IF p \in LegacyKeys
       THEN Coalesce(previsto[p], Coalesce(ov[p], RInt(current[p] + deltas[p])))
       ELSE Coalesce(ov[p], RInt(current[p] + deltas[p])))]

\* lines 88-114: const applied = { ... }
Applied(ov, previsto, current, deltas) ==
  [p \in ProgramKeys |->
     clampPts(
       IF p \in LegacyKeys
       THEN Coalesce(ov[p], Coalesce(previsto[p], RInt(current[p] + deltas[p])))
       ELSE Coalesce(ov[p], RInt(current[p] + deltas[p])))]

\* a transaction that does not look at the status again
NotStillOpenNever(row) == FALSE

\* if (stillOpen.status !== "OPEN")
NotStillOpen(row) == row.status # "OPEN"

\* lines 58-114: the transaction opens, reads and computes
TxRead(r) ==
  /\ pc[r] = "txRead"
  /\ LET stillOpen == FindPurchase(req[r].id)
     IN  IF stillOpen = NoRow THEN Throw(r, "compra")
         ELSE IF NotStillOpen(stillOpen[1]) THEN Throw(r, "open")
         ELSE IF stillOpen[1].cedenteId = NoId THEN Throw(r, "cedente")
         ELSE
           /\ loc' = [loc EXCEPT ![r] =
                [NoLocals EXCEPT
                   !.cedenteId = stillOpen[1].cedenteId,
                   !.applied =
                     Applied(req[r].saldosAplicados, stillOpen[1].saldoPrevisto,
                             Current(pontos[stillOpen[1].cedenteId]),
                             computeProgramDeltas(items[req[r].id]))]]
           /\ stale' = [stale EXCEPT ![r] = {}]
           /\ pc' = [pc EXCEPT ![r] = "txCedente"]
           /\ UNCHANGED <<storeVars, now, isolation, req, txw, resp, deltaVars, authVars>>

\* lines 117-130: tx.cedente.update
TxUpdateCedente(r) ==
  /\ pc[r] = "txCedente"
  /\ ~LockedByOther(r, <<"ced", loc[r].cedenteId>>)
  /\ IF Conflict(r, <<"ced", loc[r].cedenteId>>) THEN Throw(r, "conflict")
     ELSE
       /\ txw' = [txw EXCEPT ![r].ced =
                    <<[id |-> loc[r].cedenteId, data |-> loc[r].applied]>>]
       /\ pc' = [pc EXCEPT ![r] = "txItems"]
       /\ UNCHANGED <<storeVars, now, isolation, req, loc, stale, resp, deltaVars, authVars>>

\* a where clause without the status filter
MatchedItemsAnyStatus(id) == {i \in 1..Len(items[id]) : TRUE}

\* where: { purchaseId: id, status: "PENDING" }
MatchedItems(id) == {i \in 1..Len(items[id]) : items[id][i].status = PENDING}

\* lines 133-136: tx.purchaseItem.updateMany
TxUpdateItems(r) ==
  /\ pc[r] = "txItems"
  /\ ~LockedByOther(r, <<"item", req[r].id>>)
  /\ IF Conflict(r, <<"item", req[r].id>>) THEN Throw(r, "conflict")
     ELSE
       /\ txw' = [txw EXCEPT ![r].items =
                    <<[id |-> req[r].id, matched |-> MatchedItems(req[r].id)]>>]
       /\ pc' = [pc EXCEPT ![r] = "txPurchase"]
       /\ UNCHANGED <<storeVars, now, isolation, req, loc, stale, resp, deltaVars, authVars>>

\* lines 139-158: tx.purchase.update, then Number(cedentePayCents || 0)
TxUpdatePurchase(r) ==
  /\ pc[r] = "txPurchase"
  /\ ~LockedByOther(r, <<"pur", req[r].id>>)
  /\ IF Conflict(r, <<"pur", req[r].id>>) THEN Throw(r, "conflict")
     ELSE
       LET amountCents == purchase[req[r].id].cedentePayCents
       IN  /\ txw' = [txw EXCEPT ![r].pur =
                   <<[id |-> req[r].id,
                      data |-> [liberadoEm |-> now,
                                liberadoPorId |-> req[r].userId,
                                status |-> "CLOSED",
                                saldoAplicado |->
                                  [p \in LegacyKeys |-> RInt(loc[r].applied[p])]]]>>]
           /\ now' = now + 1
           /\ loc' = [loc EXCEPT ![r].amountCents = amountCents]
           /\ pc' = [pc EXCEPT ![r] =
                       IF amountCents > 0 THEN "txUpsert" ELSE "txCommit"]
           /\ UNCHANGED <<storeVars, isolation, req, stale, resp, deltaVars, authVars>>

\* an upsert that always takes its create branch
UpsertOpCreate(rows, pid) == "create"

\* tx.cedenteCommission.upsert({ where: { purchaseId } }): which branch runs
UpsertOp(rows, pid) == IF CommissionIdx(rows, pid) # {} THEN "update" ELSE "create"

\* an update branch that leaves the payment fields as they were
UpsertRowKeepsPayment(rows, pid, cid, amountCents, userId) ==
  IF CommissionIdx(rows, pid) # {}
  THEN [rows[CHOOSE i \in CommissionIdx(rows, pid) : TRUE] EXCEPT
          !.amountCents = amountCents, !.status = "PENDING",
          !.generatedById = userId]
  ELSE [id |-> Len(rows) + 1, cedenteId |-> cid, purchaseId |-> pid,
        amountCents |-> amountCents, status |-> "PENDING",
        generatedById |-> userId, generatedAt |-> now,
        paidAt |-> 0, paidById |-> NoId]

\* lines 161-177: the row the upsert leaves (create: / update:)
UpsertRow(rows, pid, cid, amountCents, userId) ==
  IF UpsertOp(rows, pid) = "update"
  THEN [rows[CHOOSE i \in CommissionIdx(rows, pid) : TRUE] EXCEPT
          !.amountCents = amountCents, !.status = "PENDING",
          !.generatedById = userId, !.paidAt = 0, !.paidById = NoId]
  ELSE [id |-> Len(rows) + 1, cedenteId |-> cid, purchaseId |-> pid,
        amountCents |-> amountCents, status |-> "PENDING",
        generatedById |-> userId, generatedAt |-> now,
        paidAt |-> 0, paidById |-> NoId]

\* lines 159-178
TxUpsertCommission(r) ==
  /\ pc[r] = "txUpsert"
  /\ ~LockedByOther(r, <<"com", req[r].id>>)
  /\ IF Conflict(r, <<"com", req[r].id>>) THEN Throw(r, "conflict")
     ELSE
       LET row == UpsertRow(commissions, req[r].id, loc[r].cedenteId,
                            loc[r].amountCents, req[r].userId)
       IN  /\ txw' = [txw EXCEPT ![r].com =
                        <<[op |-> UpsertOp(commissions, req[r].id), row |-> row]>>]
           /\ loc' = [loc EXCEPT ![r].commission = <<row>>]
           /\ pc' = [pc EXCEPT ![r] = "txCommit"]
           /\ UNCHANGED <<storeVars, now, isolation, req, stale, resp, deltaVars, authVars>>

\* lines 181-184: the callback returns, the transaction commits, ok(result)
TxCommit(r) ==
  /\ pc[r] = "txCommit"
  /\ Persist(OnReturn(txw[r]))
  /\ stale' = MarkStale(r, RowsOf(txw[r]))
  /\ txw' = [txw EXCEPT ![r] = EmptyTx]
  /\ Finish(r, [status |-> 200, error |-> "", compra |-> req[r].id,
                commission |-> loc[r].commission])
  /\ UNCHANGED <<now, isolation, req, loc, deltaVars, authVars>>

\* a statement of the transaction fails in the store; the error names the statement
TxError(r) ==
  /\ pc[r] \in TxPcs
  /\ Throw(r, pc[r])


(***************************************************************************)
(* Initial store and the requests clients send                             *)
(***************************************************************************)
InitialItems ==
  [id \in PurchaseIds |->
     IF id = "p1"
     THEN <<Item(PENDING, LATAM, RInt(MaxPts), AZUL, RInt(MaxPts)),
            Item(CANCELED, SMILES, RInt(MaxPts), <<>>, RInt(0))>>
     ELSE <<Item(RELEASED, LATAM, RInt(1), <<>>, RInt(0)),
            Item(PENDING, TAP, RInt(MaxPts), SMILES, RInt(1))>>]

OpenPurchase(cid, pay) ==
  [status |-> "OPEN", cedenteId |-> cid, saldoPrevisto |-> NullPrevisto,
   saldoAplicado |-> NullPrevisto, cedentePayCents |-> pay,
   liberadoEm |-> 0, liberadoPorId |-> NoId]

\* a purchase released before the first request arrives
ClosedPurchase ==
  [OpenPurchase(CedenteId, 0) EXCEPT
     !.status = "CLOSED", !.liberadoEm = 1, !.liberadoPorId = "u0"]

SecondPurchases ==
  {OpenPurchase(CedenteId, 0 - 1), OpenPurchase(NoId, 0), ClosedPurchase}

\* a commission of p1 already paid (the purchase was reopened by hand)
PaidCommission ==
  [id |-> 1, cedenteId |-> CedenteId, purchaseId |-> "p1", amountCents |-> 1,
   status |-> "PAID", generatedById |-> "u0", generatedAt |-> 1,
   paidAt |-> 1, paidById |-> "u0"]

InitialPontos == [p \in ProgramKeys |-> MaxPts - 1]

InitRequests ==
  /\ pc = [r \in Requests |-> "idle"]
  /\ req = [r \in Requests |-> NoRequest]
  /\ loc = [r \in Requests |-> NoLocals]
  /\ txw = [r \in Requests |-> EmptyTx]
  /\ stale = [r \in Requests |-> {}]
  /\ resp = [r \in Requests |-> NoResponse]

InitStore ==
  /\ pontos = [c \in {CedenteId} |-> InitialPontos]
  /\ \E pay \in {0, 5}, second \in SecondPurchases :
       purchase = [id \in PurchaseIds |->
                     IF id = "p1" THEN OpenPurchase(CedenteId, pay) ELSE second]
  /\ items = InitialItems
  /\ commissions \in {<<>>, <<PaidCommission>>}
  /\ now = 2
  /\ isolation \in {"ReadCommitted", "Snapshot"}

(***************************************************************************)
(* The User table of /api/auth and its clients at rest                     *)
(***************************************************************************)
TEAM == "@loiro_das_milhas"

JEPHESSON == <<"j","e","p","h","e","s","s","o","n">>
LUCAS == <<"l","u","c","a","s">>
PAOLA == <<"p","a","o","l","a">>
EDUARDA == <<"e","d","u","a","r","d","a">>
RAFAEL == <<"r","a","f","a","e","l">>

AuthClients == {"a1", "a2"}
AuthLogins == {RAFAEL, LUCAS}

\* a User row; referenced: some other table holds a foreign key to it
UserRow(login, name, role, hash, referenced) ==
  [id |-> <<"id", login>>, login |-> login, name |-> name, email |-> "null",
   team |-> TEAM, role |-> role, passwordHash |-> hash,
   referenced |-> referenced]

NoUsers == [l \in {} |-> UserRow(<<>>, "", "", <<>>, FALSE)]

NoAuthRequest ==
  [op |-> "", login |-> <<>>, password |-> "", i |-> 0, existing |-> FALSE]
NoAuthResponse == [status |-> 0, error |-> "", cookie |-> <<>>]
AuthIdle ==
  /\ apc = [a \in AuthClients |-> "idle"]
  /\ areq = [a \in AuthClients |-> NoAuthRequest]
  /\ aresp = [a \in AuthClients |-> NoAuthResponse]
  /\ lastSet = [l \in AuthLogins |-> ""]

Init ==
  /\ InitStore
  /\ InitRequests
  /\ dItems = <<>>
  /\ dOut = ZeroDeltas
  /\ dDone = FALSE
  /\ users = NoUsers
  /\ AuthIdle

Body(m, o) == [malformed |-> m, saldosAplicados |-> o]

OverrideChoices ==
  {NoOverrides,
   [NoOverrides EXCEPT !["latam"] = RNum(8 * MaxPts + 3), !["azul"] = RNum(0 - 3),
                       !["smiles"] = RNaN, !["tap"] = RInt(3 * MaxPts)]}

Bodies == {Body(TRUE, NoOverrides)} \cup {Body(FALSE, o) : o \in OverrideChoices}

RequestIds == {NoId, UnknownId} \cup PurchaseIds

Request(r) ==
  \E id \in RequestIds, user \in {NoId, SessionUser(r)}, body \in Bodies :
    Arrive(r, id, user, body)

Next ==
  \E r \in Requests :
    \/ Request(r)
    \/ Find1(r)
    \/ Recompute(r)
    \/ Find2(r)
    \/ TxRead(r)
    \/ TxUpdateCedente(r)
    \/ TxUpdateItems(r)
    \/ TxUpdatePurchase(r)
    \/ TxUpsertCommission(r)
    \/ TxCommit(r)
    \/ TxError(r)

Spec == Init /\ [][Next]_vars


(***************************************************************************)
(* computeProgramDeltas called on its own, on untyped items                *)
(***************************************************************************)
Lowercase == <<"c","a","n","c","e","l","e","d">>
PaddedLatam == <<" ","l","a","t","a","m"," ">>
FlyingBlueKey == <<"f","l","y","i","n","g","B","l","u","e">>
FlyingBlueWire == <<"f","l","y","i","n","g","_","b","l","u","e">>

DeltaStatuses == {PENDING, RELEASED, CANCELED, Lowercase}
DeltaPrograms ==
  {<<PaddedLatam, AZUL>>, <<<<>>, LATAM>>, <<FlyingBlueKey, FlyingBlueWire>>,
   <<LATAM, LATAM>>}
DeltaPoints ==
  {<<RInt(MaxPts), RNum(3)>>, <<RNum(0 - 2), RNaN>>, <<RNull, RInt(1)>>}

DeltaItems ==
  {Item(st, pr[1], pt[1], pr[2], pt[2]) :
     st \in DeltaStatuses, pr \in DeltaPrograms, pt \in DeltaPoints}

DeltaInputs == UNION {[1..n -> DeltaItems] : n \in 0..MaxItems}

InitDelta ==
  /\ pontos = [c \in {CedenteId} |-> InitialPontos]
  /\ purchase = [id \in PurchaseIds |-> OpenPurchase(CedenteId, 0)]
  /\ items = InitialItems
  /\ commissions = <<>>
  /\ now = 2
  /\ isolation = "ReadCommitted"
  /\ InitRequests
  /\ dItems \in DeltaInputs
  /\ dOut = ZeroDeltas
  /\ dDone = FALSE
  /\ users = NoUsers
  /\ AuthIdle

DeltaCall ==
  /\ ~dDone
  /\ dOut' = computeProgramDeltas(dItems)
  /\ dDone' = TRUE
  /\ UNCHANGED <<storeVars, now, isolation, reqVars, dItems, authVars>>

NextDelta == DeltaCall

SpecDelta == InitDelta /\ [][NextDelta]_vars

(***************************************************************************)
(* /api/auth: the User table, the seed and the four POST actions           *)
(***************************************************************************)
\* sha256(s): a digest is not the string it digests
sha256(s) == <<"sha256", s>>

LowerChar(c) ==
  IF \E i \in 1..Len(UpperAZ) : UpperAZ[i] = c
  THEN LowerAZ[CHOOSE i \in 1..Len(UpperAZ) : UpperAZ[i] = c]
  ELSE c

\* String.prototype.toLowerCase
ToLowerCase(s) == [i \in 1..Len(s) |-> LowerChar(s[i])]

\* norm(s): (s ?? "").trim().toLowerCase(); an absent string is <<>>
norm(s) == ToLowerCase(Trim(s))

OLD_SEED_LOGINS == <<JEPHESSON, LUCAS, PAOLA, EDUARDA>>

SEED_USERS ==
  <<[login |-> RAFAEL, name |-> "Rafael Nascimento", email |-> "null",
     role |-> "admin", password |-> "1234"]>>

InsertUser(tbl, row) ==
  [l \in DOMAIN tbl \cup {row.login} |-> IF l = row.login THEN row ELSE tbl[l]]

DeleteUser(tbl, login) == [l \in DOMAIN tbl \ {login} |-> tbl[l]]

AuthResponse(st, err) == [status |-> st, error |-> err, cookie |-> <<>>]

\* setSessionCookie(res, {id, login, role, team})
SessionCookie(u) == <<u.id, u.login, u.role, u.team>>
\* clearSessionCookie(res)
ClearedCookie == <<"">>

AuthFinish(a, rsp) ==
  /\ apc' = [apc EXCEPT ![a] = "done"]
  /\ areq' = [areq EXCEPT ![a].i = 0, ![a].existing = FALSE]
  /\ aresp' = [aresp EXCEPT ![a] = rsp]

\* the row data of the seed's prisma.user.create
SeedCreateRow(u) ==
  UserRow(norm(u.login), u.name, u.role, sha256(u.password), FALSE)

\* a seed update that also writes the seed password
SeedUpdateWithPassword(row, u) ==
  [row EXCEPT !.name = u.name, !.email = u.email, !.team = TEAM,
              !.role = u.role, !.passwordHash = sha256(u.password)]

\* the row after the seed's prisma.user.update
SeedUpdate(row, u) ==
  [row EXCEPT !.name = u.name, !.email = u.email, !.team = TEAM,
              !.role = u.role]

\* GET, or POST with a body: every action but logout and an invalid body
\* starts with await seedUsersToDb()
AuthArrive(a, op, login, password) ==
  /\ apc[a] \in {"idle", "done"}
  /\ LET rq == [NoAuthRequest EXCEPT !.op = op, !.login = login,
                                     !.password = password]
     IN CASE op = "invalid" ->
               /\ apc' = [apc EXCEPT ![a] = "done"]
               /\ areq' = [areq EXCEPT ![a] = [NoAuthRequest EXCEPT !.op = op]]
               /\ aresp' = [aresp EXCEPT ![a] = AuthResponse(400, "acao")]
          [] op = "logout" ->
               /\ apc' = [apc EXCEPT ![a] = "done"]
               /\ areq' = [areq EXCEPT ![a] = [NoAuthRequest EXCEPT !.op = op]]
               /\ aresp' = [aresp EXCEPT ![a] =
                              [AuthResponse(200, "") EXCEPT !.cookie = ClearedCookie]]
          [] OTHER ->
               /\ apc' = [apc EXCEPT ![a] = "prune"]
               /\ areq' = [areq EXCEPT ![a] = [rq EXCEPT !.i = 1]]
               /\ aresp' = [aresp EXCEPT ![a] = NoAuthResponse]
  /\ UNCHANGED <<users, lastSet>>
  /\ UNCHANGED <<storeVars, now, isolation, reqVars, deltaVars>>

\* pruneOldSeedUsers: one prisma.user.delete per legacy login; a missing row
\* (P2025) and a row held by a foreign key both throw into the empty catch
pruneOldSeedUsers(a) ==
  /\ apc[a] = "prune"
  /\ LET login == OLD_SEED_LOGINS[areq[a].i]
         last == areq[a].i = Len(OLD_SEED_LOGINS)
     IN /\ users' = IF login \in DOMAIN users /\ ~users[login].referenced
                    THEN DeleteUser(users, login)
                    ELSE users
        /\ apc' = [apc EXCEPT ![a] = IF last THEN "seedFind" ELSE "prune"]
        /\ areq' = [areq EXCEPT ![a].i = IF last THEN 1 ELSE @ + 1]
  /\ UNCHANGED <<aresp, lastSet>>
  /\ UNCHANGED <<storeVars, now, isolation, reqVars, deltaVars>>

\* seedUsersToDb: const existing = await prisma.user.findUnique(...)
SeedFind(a) ==
  /\ apc[a] = "seedFind"
  /\ LET login == norm(SEED_USERS[areq[a].i].login)
     IN areq' = [areq EXCEPT ![a].existing = login \in DOMAIN users]
  /\ apc' = [apc EXCEPT ![a] = "seedWrite"]
  /\ UNCHANGED <<users, aresp, lastSet>>
  /\ UNCHANGED <<storeVars, now, isolation, reqVars, deltaVars>>

\* what follows await seedUsersToDb() in GET and in each POST action
AfterSeed(a) ==
  LET op == areq[a].op
      login == norm(areq[a].login)
      password == areq[a].password
  IN CASE op = "ping" -> AuthFinish(a, AuthResponse(200, ""))
       [] op = "resetSeed" -> AuthFinish(a, AuthResponse(200, ""))
       [] login = <<>> \/ password = "" -> AuthFinish(a, AuthResponse(400, "campos"))
       [] OTHER ->
            /\ apc' = [apc EXCEPT ![a] = IF op = "login" THEN "loginFind"
                                                         ELSE "setUpdate"]
            /\ areq' = [areq EXCEPT ![a].i = 0, ![a].existing = FALSE]
            /\ UNCHANGED aresp

\* seedUsersToDb: prisma.user.create when the row was not found, else
\* prisma.user.update; a create meeting the unique login and an update
\* meeting no row throw out of the seed
SeedWrite(a) ==
  /\ apc[a] = "seedWrite"
  /\ LET u == SEED_USERS[areq[a].i]
         login == norm(u.login)
         last == areq[a].i = Len(SEED_USERS)
     IN IF ~areq[a].existing /\ login \in DOMAIN users
        THEN /\ AuthFinish(a, AuthResponse(500, "P2002"))
             /\ UNCHANGED users
        ELSE IF areq[a].existing /\ login \notin DOMAIN users
        THEN /\ AuthFinish(a, AuthResponse(500, "P2025"))
             /\ UNCHANGED users
        ELSE /\ users' = IF areq[a].existing
                         THEN [users EXCEPT ![login] = SeedUpdate(@, u)]
                         ELSE InsertUser(users, SeedCreateRow(u))
             /\ IF last
                THEN AfterSeed(a)
                ELSE /\ apc' = [apc EXCEPT ![a] = "seedFind"]
                     /\ areq' = [areq EXCEPT ![a].i = @ + 1, ![a].existing = FALSE]
                     /\ UNCHANGED aresp
  /\ UNCHANGED lastSet
  /\ UNCHANGED <<storeVars, now, isolation, reqVars, deltaVars>>

\* login: findUnique, the two 401 answers, the session cookie
LoginFind(a) ==
  /\ apc[a] = "loginFind"
  /\ LET login == norm(areq[a].login)
     IN IF login \notin DOMAIN users
        THEN AuthFinish(a, AuthResponse(401, "usuario"))
        ELSE IF users[login].passwordHash # sha256(areq[a].password)
        THEN AuthFinish(a, AuthResponse(401, "senha"))
        ELSE AuthFinish(a, [AuthResponse(200, "") EXCEPT
                              !.cookie = SessionCookie(users[login])])
  /\ UNCHANGED <<users, lastSet>>
  /\ UNCHANGED <<storeVars, now, isolation, reqVars, deltaVars>>

\* setPassword: prisma.user.update of passwordHash; no row throws (500)
SetPasswordUpdate(a) ==
  /\ apc[a] = "setUpdate"
  /\ LET login == norm(areq[a].login)
     IN IF login \notin DOMAIN users
        THEN /\ AuthFinish(a, AuthResponse(500, "P2025"))
             /\ UNCHANGED <<users, lastSet>>
        ELSE /\ users' = [users EXCEPT ![login].passwordHash =
                                          sha256(areq[a].password)]
             /\ lastSet' = [lastSet EXCEPT ![login] = areq[a].password]
             /\ AuthFinish(a, AuthResponse(200, ""))
  /\ UNCHANGED <<storeVars, now, isolation, reqVars, deltaVars>>

PaddedRafael == <<" ","R","a","f","a","e","l">>

AuthOps == {"ping", "resetSeed", "logout", "invalid"}
AuthCredentials ==
  {<<PaddedRafael, "1234">>, <<PaddedRafael, "abc">>, <<LUCAS, "abc">>,
   <<<<>>, "abc">>, <<PaddedRafael, "">>}

AuthRequest(a) ==
  \/ \E op \in AuthOps : AuthArrive(a, op, <<>>, "")
  \/ \E op \in {"login", "setPassword"}, c \in AuthCredentials :
       AuthArrive(a, op, c[1], c[2])

\* the seed user with a password set before, under an older display name
EarlierRafael == UserRow(RAFAEL, "Rafael", "staff", sha256("old"), FALSE)
LegacyLucas(referenced) == UserRow(LUCAS, "Lucas", "staff", sha256("old"), referenced)

InitialUsers ==
  {NoUsers, InsertUser(NoUsers, EarlierRafael)}
    \cup {InsertUser(t, LegacyLucas(f)) :
            t \in {NoUsers, InsertUser(NoUsers, EarlierRafael)}, f \in BOOLEAN}

InitAuth ==
  /\ pontos = [c \in {CedenteId} |-> InitialPontos]
  /\ purchase = [id \in PurchaseIds |-> OpenPurchase(CedenteId, 0)]
  /\ items = InitialItems
  /\ commissions = <<>>
  /\ now = 2
  /\ isolation = "ReadCommitted"
  /\ InitRequests
  /\ dItems = <<>>
  /\ dOut = ZeroDeltas
  /\ dDone = FALSE
  /\ users \in InitialUsers
  /\ AuthIdle

NextAuth ==
  \E a \in AuthClients :
    \/ AuthRequest(a)
    \/ pruneOldSeedUsers(a)
    \/ SeedFind(a)
    \/ SeedWrite(a)
    \/ LoginFind(a)
    \/ SetPasswordUpdate(a)

SpecAuth == InitAuth /\ [][NextAuth]_vars



(***************************************************************************)
(* Claims                                                                  *)
(***************************************************************************)
\* the step a request takes
Steps(r) == pc'[r] # pc[r]
Committed(r) == pc[r] = "done" /\ resp[r].status = 200
Commits(r) == pc[r] = "txCommit" /\ pc'[r] = "done" /\ resp'[r].status = 200

\* C1: a release called on a purchase that is not OPEN (the second of two
\* sequential releases included) answers 400 "only OPEN purchases" and none of
\* its steps writes a balance, an item, the purchase or a commission.
C1_ClosedReleaseWritesNothing ==
  [][\A r \in Requests :
       (Steps(r) /\ req'[r].statusAtCall = "CLOSED")
         => /\ UNCHANGED <<storeVars, txw>>
            /\ pc'[r] = "done" => (resp'[r].status = 400 /\ resp'[r].error = "open")]_vars

\* C1 witness: r2 was called after r1 had released the same purchase, and failed.
C1_Witness ==
  /\ Committed("r1")
  /\ req["r2"].id = req["r1"].id
  /\ req["r2"].statusAtCall = "CLOSED"
  /\ pc["r2"] = "done"
  /\ resp["r2"].status = 400

\* C2: of two release requests on the same purchase at most one commits.
C2_AtMostOneCommits ==
  \A r \in Requests, o \in Requests :
    (r # o /\ Committed(r) /\ Committed(o)) => req[r].id # req[o].id

\* the value the precedence of C3 names for program p, from what the
\* transaction of r reads
FirstPresent(r, p) ==
  LET ov == req[r].saldosAplicados[p]
      compra == purchase[req[r].id]
      computed ==
        clampPts(RInt(pontos[compra.cedenteId][p]))
          + computeProgramDeltas(items[req[r].id])[p]
  IN  IF ov # RNull THEN ov
      ELSE IF p \in LegacyKeys /\ compra.saldoPrevisto[p] # RNull
      THEN compra.saldoPrevisto[p]
      ELSE RInt(computed)

\* C3: a successful release writes, for each of the nine programs, the clamp of
\* the first present of: the override, the predicted balance (four legacy
\* programs only), current balance + delta.
C3_AppliedPrecedence ==
  [][\A r \in Requests :
       /\ (pc[r] = "txRead" /\ pc'[r] = "txCedente")
            => \A p \in ProgramKeys : loc'[r].applied[p] = clampPts(FirstPresent(r, p))
       /\ Commits(r) => pontos'[loc[r].cedenteId] = loc[r].applied]_vars

\* C3 witness: no override for LATAM, a predicted balance for it, and the
\* release wrote the predicted balance, not current + delta; AZUL was overridden.
C3_Witness ==
  \E r \in Requests :
    /\ Committed(r)
    /\ req[r].id = "p1"
    /\ req[r].saldosAplicados = NoOverrides
    /\ purchase["p1"].saldoPrevisto["latam"] = RInt(3 * MaxPts + 1)
    /\ pontos[CedenteId]["latam"] = 3 * MaxPts + 1
    /\ pontos[CedenteId]["azul"] = 0

\* C4: every point counter of every cedente is an integer >= 0 in every state.
C4_CountersNonNegative ==
  \A c \in DOMAIN pontos : \A p \in ProgramKeys : pontos[c][p] \in Nat

\* C4 witness: a release with a negative override for AZUL was committed.
C4_Witness ==
  \E r \in Requests :
    /\ Committed(r)
    /\ req[r].saldosAplicados["azul"] = RNum(0 - 3)
    /\ pontos[CedenteId]["azul"] = 0

\* C5: a release whose transaction fails leaves the store as it was, and the
\* store changes only when a transaction commits or recompute runs.
C5_FailedTransactionRollsBack ==
  [][/\ \A r \in Requests :
          (pc[r] \in TxPcs /\ pc'[r] = "done" /\ resp'[r].status = 500)
            => (UNCHANGED storeVars /\ txw'[r] = EmptyTx)
     /\ storeVars' # storeVars
          => \E r \in Requests : Commits(r) \/ (pc[r] = "recompute" /\ Steps(r))]_vars

\* C5 witness: the bulk item update failed after the balance update was issued.
C5_Witness ==
  \E r \in Requests :
    /\ pc[r] = "done"
    /\ resp[r].status = 500
    /\ resp[r].error = "txItems"
    /\ loc[r].applied # pontos[loc[r].cedenteId]
    /\ purchase[req[r].id].status = "OPEN"

RECURSIVE SumOf(_, _)
SumOf(f, S) ==
  IF S = {} THEN 0
  ELSE LET i == CHOOSE i \in S : TRUE IN f[i] + SumOf(f, S \ {i})

Live(its) == {i \in 1..Len(its) : ToUpperCase(its[i].status) # CANCELED}
Credits(its, p) ==
  SumOf([i \in 1..Len(its) |-> clampPts(its[i].pointsFinal)],
        {i \in Live(its) : toProgramKey(its[i].programTo) = p})
Debits(its, p) ==
  SumOf([i \in 1..Len(its) |-> clampPts(its[i].pointsDebitedFromOrigin)],
        {i \in Live(its) : toProgramKey(its[i].programFrom) = p})

\* C6: computeProgramDeltas returns, per program, the clamped credits of the
\* non-canceled items sent to it minus the clamped debits of the non-canceled
\* items taken from it; canceled items and unresolved names add nothing.
C6_DeltasAreCreditsMinusDebits ==
  dDone => \A p \in ProgramKeys : dOut[p] = Credits(dItems, p) - Debits(dItems, p)

\* C6 witness: a call with a canceled item in lower case, a live item with an
\* unresolved destination, and a net debit.
C6_Witness ==
  /\ dDone
  /\ \E i \in 1..Len(dItems) : dItems[i].status = Lowercase
  /\ \E i \in 1..Len(dItems) :
       /\ ~IsCanceled(dItems[i])
       /\ toProgramKey(dItems[i].programTo) = NoKey
       /\ dItems[i].programTo # <<>>
  /\ \E p \in ProgramKeys : dOut[p] < 0

\* C7: once a purchase is CLOSED it stays CLOSED and its release stamp
\* (liberadoEm, liberadoPorId) is never written again.
C7_ClosedOnceStampedOnce ==
  [][\A id \in PurchaseIds :
       purchase[id].status = "CLOSED"
         => /\ purchase'[id].status = "CLOSED"
            /\ purchase'[id].liberadoEm = purchase[id].liberadoEm
            /\ purchase'[id].liberadoPorId = purchase[id].liberadoPorId]_vars

AtMostOneCommission(rows) ==
  \A id \in PurchaseIds : Cardinality(CommissionIdx(rows, id)) <= 1

\* C8: there is at most one commission per purchase, and a commission once
\* recorded stays the same record (same id, purchase, generation time).
C8_OneCommissionPerPurchase ==
  /\ AtMostOneCommission(commissions)
  /\ [][/\ AtMostOneCommission(commissions')
        /\ \A i \in 1..Len(commissions) :
             /\ i <= Len(commissions')
             /\ commissions'[i].id = commissions[i].id
             /\ commissions'[i].purchaseId = commissions[i].purchaseId
             /\ commissions'[i].generatedAt = commissions[i].generatedAt]_vars

\* C8 witness: both requests released p1, which already had a commission.
C8_Witness ==
  /\ Committed("r1") /\ Committed("r2")
  /\ req["r1"].id = "p1" /\ req["r2"].id = "p1"
  /\ Len(commissions) = 1
  /\ commissions[1].id = PaidCommission.id
  /\ commissions[1].generatedAt = PaidCommission.generatedAt
  /\ commissions[1].status = "PENDING"
  /\ commissions[1].paidAt = 0

\* C9: a release that commits leaves, when cedentePayCents > 0, one commission
\* of that amount, PENDING, generated by the caller, unpaid, and returns it; and
\* otherwise leaves the commissions alone and returns none.
C9_CommissionOnRelease ==
  [][\A r \in Requests :
       Commits(r) =>
         LET pay == purchase'[req[r].id].cedentePayCents
             idx == CommissionIdx(commissions', req[r].id)
         IN  IF pay > 0
             THEN /\ Cardinality(idx) = 1
                  /\ \A i \in idx :
                       /\ commissions'[i].amountCents = pay
                       /\ commissions'[i].status = "PENDING"
                       /\ commissions'[i].generatedById = req[r].userId
                       /\ commissions'[i].paidAt = 0
                       /\ commissions'[i].paidById = NoId
                       /\ commissions'[i].cedenteId = purchase'[req[r].id].cedenteId
                       /\ resp'[r].commission = <<commissions'[i]>>
             ELSE /\ commissions' = commissions
                  /\ resp'[r].commission = NoRow]_vars

\* C9 witness: a paid commission existed and the release reset it.
C9_Witness ==
  \E r \in Requests :
    /\ Committed(r)
    /\ resp[r].commission # NoRow
    /\ resp[r].commission[1].id = PaidCommission.id
    /\ resp[r].commission[1].generatedAt = PaidCommission.generatedAt
    /\ resp[r].commission[1].amountCents = 5
    /\ commissions = resp[r].commission

\* C10: a release that commits leaves every PENDING item of its purchase
\* RELEASED and every other item as it was; items change in no other step and
\* no item leaves CANCELED.
C10_PendingItemsReleased ==
  [][/\ \A r \in Requests :
          Commits(r) =>
            \A id \in PurchaseIds :
              /\ Len(items'[id]) = Len(items[id])
              /\ \A i \in 1..Len(items[id]) :
                   items'[id][i] =
                     IF id = req[r].id /\ items[id][i].status = PENDING
                     THEN [items[id][i] EXCEPT !.status = RELEASED]
                     ELSE items[id][i]
     /\ (\A r \in Requests : ~Commits(r)) => items' = items
     /\ \A id \in PurchaseIds : \A i \in 1..Len(items[id]) :
          items[id][i].status = CANCELED => items'[id][i].status = CANCELED]_vars

\* C10 witness: p1 was released; its pending item is RELEASED, its canceled
\* item still CANCELED, and p2 still has its pending item.
C10_Witness ==
  \E r \in Requests :
    /\ Committed(r)
    /\ req[r].id = "p1"
    /\ items["p1"][1].status = RELEASED
    /\ items["p1"][2].status = CANCELED
    /\ items["p2"][2].status = PENDING

\* C11: a request that finds its purchase not OPEN, or without a cedente, is
\* answered with a 4xx, also when it finds it on the read inside the transaction.
C11_NotOpenInTransactionIs4xx ==
  \A r \in Requests :
    (pc[r] = "done" /\ resp[r].error \in {"open", "cedente"})
      => resp[r].status \in 400..499

\* C12: a request whose body is malformed is not processed as a release: it
\* never commits.
C12_MalformedBodyNotReleased ==
  \A r \in Requests : req[r].malformed => ~Committed(r)

\* C13: a request without id or session ends 400 in its first step and changes
\* nothing; one for an unknown purchase ends 404 at the first lookup, never
\* reaching recompute, and changes nothing; one for an OPEN purchase without
\* cedente ends 400 and never opens the transaction.
C13_EarlyRejections ==
  [][\A r \in Requests :
       Steps(r) =>
         /\ (pc[r] = "idle" /\ req'[r].userId = NoId)
              => /\ pc'[r] = "done"
                 /\ resp'[r].status = 400
                 /\ UNCHANGED <<storeVars, txw>>
         /\ (req'[r].userId # NoId /\ req'[r].id \notin PurchaseIds)
              => /\ pc'[r] \in {"find1", "done"}
                 /\ pc'[r] = "done" => resp'[r].status = 404
                 /\ UNCHANGED <<storeVars, txw>>
         /\ (/\ req'[r].id \in PurchaseIds
             /\ req'[r].statusAtCall = "OPEN"
             /\ purchase[req'[r].id].cedenteId = NoId)
              => /\ pc'[r] \notin TxPcs
                 /\ txw'[r] = EmptyTx
                 /\ pc'[r] = "done"
                      => (resp'[r].status = 400 /\ resp'[r].error = "cedente")]_vars

\* C13 witness: a release of the OPEN purchase that has no cedente was refused
\* after recompute, and the other request had no session.
C13_Witness ==
  \E r \in Requests, o \in Requests :
    /\ pc[r] = "done"
    /\ req[r].id \in PurchaseIds
    /\ purchase[req[r].id].cedenteId = NoId
    /\ resp[r].status = 400
    /\ resp[r].error = "cedente"
    /\ pc[o] = "done"
    /\ resp[o].error = "sessao"

\* the balances a release by r leaves when it starts from balances bal
After(bal, r) ==
  Applied(req[r].saldosAplicados, purchase[req[r].id].saldoPrevisto,
          Current(bal), computeProgramDeltas(items[req[r].id]))

\* C14: when releases of two different purchases of one cedente have both
\* committed, the balances are those of running them one after the other.
C14_NoLostUpdate ==
  \A r \in Requests, o \in Requests :
    (r # o /\ Committed(r) /\ Committed(o) /\ req[r].id # req[o].id)
      => pontos[CedenteId] \in
           {After(After(InitialPontos, r), o), After(After(InitialPontos, o), r)}

\* C15: the commit of a release leaves the purchase CLOSED, stamped with the
\* caller and a time, and with saldoAplicado of the four legacy programs equal
\* to the counters the same commit wrote.
C15_AppliedSnapshotAndStamp ==
  [][\A r \in Requests :
       Commits(r) =>
         LET after == purchase'[req[r].id]
         IN  /\ after.status = "CLOSED"
             /\ after.liberadoPorId = req[r].userId
             /\ after.liberadoEm # 0
             /\ \A k \in LegacyKeys :
                  after.saldoAplicado[k] = RInt(pontos'[after.cedenteId][k])]_vars

\* C15 witness: p1 was released by r and carries the LATAM balance written.
C15_Witness ==
  \E r \in Requests :
    /\ Committed(r)
    /\ req[r].id = "p1"
    /\ purchase["p1"].status = "CLOSED"
    /\ purchase["p1"].liberadoPorId = req[r].userId
    /\ pontos[CedenteId]["latam"] = 2 * MaxPts - 1
    /\ purchase["p1"].saldoAplicado["latam"] = RInt(2 * MaxPts - 1)

\* C16: a request reaches recompute only from a first check that found the
\* purchase OPEN, the reload only from recompute, the transaction only from a
\* reload that found it OPEN with a cedente, and the predicted balance the
\* transaction applies is the one in the store when the transaction reads.
C16_StepOrder ==
  [][\A r \in Requests :
       Steps(r) =>
         /\ pc'[r] = "recompute"
              => (pc[r] = "find1" /\ purchase[req[r].id].status = "OPEN")
         /\ pc'[r] = "find2" => pc[r] = "recompute"
         /\ pc'[r] = "txRead"
              => /\ pc[r] = "find2"
                 /\ purchase[req[r].id].status = "OPEN"
                 /\ purchase[req[r].id].cedenteId # NoId
         /\ pc'[r] = "txCedente"
              => /\ pc[r] = "txRead"
                 /\ \A k \in LegacyKeys :
                      (/\ req[r].saldosAplicados[k] = RNull
                       /\ purchase[req[r].id].saldoPrevisto[k] # RNull)
                        => loc'[r].applied[k] =
                             clampPts(purchase[req[r].id].saldoPrevisto[k])
         /\ pc'[r] \in TxWritePcs \ {"txCedente"} => pc[r] \in TxWritePcs]_vars

\* C16 witness: the transaction has read and will apply the predicted LATAM
\* balance that recompute left on the purchase.
C16_Witness ==
  \E r \in Requests :
    /\ pc[r] = "txCedente"
    /\ req[r].saldosAplicados["latam"] = RNull
    /\ purchase[req[r].id].saldoPrevisto["latam"] = RInt(3 * MaxPts + 1)
    /\ loc[r].applied["latam"] = 3 * MaxPts + 1

\* the balances one release of purchase id with overrides ov can leave
SingleRelease(id, ov) ==
  {Applied(ov, f, Current(InitialPontos), computeProgramDeltas(items[id])) :
     f \in PrevistoChoices}

\* C17: when two requests release the same purchase with the same overrides,
\* the balances after any commit are those of one release of that purchase.
C17_DeltasAppliedOnce ==
  \A r \in Requests, o \in Requests :
    (/\ r # o
     /\ req[r].id \in PurchaseIds
     /\ req[o].id = req[r].id
     /\ req[r].userId # NoId /\ req[o].userId # NoId
     /\ req[o].saldosAplicados = req[r].saldosAplicados
     /\ Committed(r))
      => pontos[CedenteId] \in SingleRelease(req[r].id, req[r].saldosAplicados)

\* C17 witness: both requests released p1 without overrides and both committed.
C17_Witness ==
  /\ Committed("r1") /\ Committed("r2")
  /\ req["r1"].id = "p1" /\ req["r2"].id = "p1"
  /\ req["r1"].saldosAplicados = NoOverrides
  /\ req["r2"].saldosAplicados = NoOverrides
  /\ pontos[CedenteId]["latam"] = 2 * MaxPts - 1

(***************************************************************************)
(* /api/auth                                                               *)
(***************************************************************************)
AuthSteps(a) == apc'[a] # apc[a] \/ areq'[a] # areq[a]
SeedPcs == {"prune", "seedFind", "seedWrite"}

\* C18: a step of seedUsersToDb never changes the passwordHash of a user
\* that exists before and after it, and once setPassword(login, p) has
\* succeeded, every later login with p for that login is answered 200, no
\* matter how many seed runs came in between.
C18_SeedKeepsPasswords ==
  [][\A a \in AuthClients :
       /\ (AuthSteps(a) /\ apc[a] \in SeedPcs)
            => \A l \in DOMAIN users \cap DOMAIN users' :
                 users'[l].passwordHash = users[l].passwordHash
       /\ (AuthSteps(a) /\ apc[a] = "loginFind"
             /\ lastSet[norm(areq[a].login)] = areq[a].password)
            => aresp'[a].status = 200]_vars

\* one client alone set rafael's password to "abc" on a row that existed
\* before, and its next request, a login with "abc", ran the seed's update
\* branch and was then answered 200 with the session cookie
C18_Witness ==
  \E a \in AuthClients :
    /\ \A o \in AuthClients \ {a} : apc[o] = "idle"
    /\ apc[a] = "done"
    /\ areq[a].op = "login"
    /\ areq[a].password = "abc"
    /\ aresp[a].status = 200
    /\ aresp[a].cookie = SessionCookie(users[RAFAEL])
    /\ lastSet[RAFAEL] = "abc"
    /\ users[RAFAEL].passwordHash = sha256("abc")
    /\ users[RAFAEL].id = EarlierRafael.id
    /\ users[RAFAEL].name = SEED_USERS[1].name

=============================================================================
